---------------------------- MODULE Spec2Model ----------------------------
(***************************************************************************)
(* Keithley 6514 electrometer driver (instruments/keithley/keithley6514.py) *)
(* as a state machine.                                                      *)
(*                                                                          *)
(* State: the instrument on the other side of the transport (the value held *)
(* by every SCPI node, the driver itself keeps none) and a record of the    *)
(* last call made on the driver: what was called, every request/response    *)
(* exchange it put on the transport, and what it returned or raised; and    *)
(* the number of calls made so far.                                         *)
(*                                                                          *)
(* Reading of the source.  Every statement that is valid Python is modelled *)
(* as Python runs it: the enumeration handed to each enum_property, the     *)
(* re-binding of a class attribute by a later assignment or decorator, a    *)
(* function without a return statement, a dictionary lookup of a missing    *)
(* key, an attribute missing on the argument.  What cannot run for any      *)
(* input is read as the definition it evidently names: the unclosed         *)
(* parentheses of lines 103 and 110, `_valid_range` declared without        *)
(* `self`, the membership test against the ValidRange member rather than    *)
(* its tuple, the unqualified enumeration names, and `send_cmd` (line 195)  *)
(* for `sendcmd`.                                                           *)
(***************************************************************************)
EXTENDS Integers, Sequences, FiniteSets, TLC

VARIABLES dev, last, calls

vars == <<dev, last, calls>>

-----------------------------------------------------------------------------
(* Bound of the exploration.                                               *)

\* the number of calls a program makes on the driver
MaxCalls == 3

-----------------------------------------------------------------------------
(* Enumerations, lines 68-92.  An enumeration is a function from member    *)
(* name to member value; a member is the Python value Enum(cls, name).     *)

Mode ==
    [voltage |-> "VOLT", current |-> "CURR", resistance |-> "RES", charge |-> "CHAR"]

TriggerMode ==
    [immediate |-> "IMM", tlink |-> "TLINK"]

ArmSource ==
    [immediate |-> "IMM", timer |-> "TIM", bus |-> "BUS", tlink |-> "TLIN",
     stest |-> "STES", pstest |-> "PST", nstest |-> "NST", manual |-> "MAN"]

EnumClass(cls) ==
    CASE cls = "Mode" -> Mode
      [] cls = "TriggerMode" -> TriggerMode
      [] cls = "ArmSource" -> ArmSource

Enum(cls, name) == [t |-> "enum", cls |-> cls, name |-> name]

Members(cls) == {Enum(cls, n) : n \in DOMAIN EnumClass(cls)}

\* member.value
EnumValue(v) == EnumClass(v.cls)[v.name]

(* A magnitude is d * 10^e with one significant digit d, e = 0 when d = 0. *)
(* Lit(c, e) is the float literal `c e<e>` of the source, c in 2, 20, 200. *)
Mag(d, e) == [d |-> d, e |-> e]

Lit(c, e) ==
    CASE c = 2 -> Mag(2, e)
      [] c = 20 -> Mag(2, e + 1)
      [] c = 200 -> Mag(2, e + 2)

\* class ValidRange, lines 88-92: the value tuple of each member
ValidRange ==
    [voltage |-> {Lit(2, 0), Lit(20, 0), Lit(200, 0)},
     current |-> {Lit(20, -12), Lit(200, -12), Lit(2, -9), Lit(20, -9), Lit(200, -9),
                  Lit(2, -6), Lit(20, -6), Lit(200, -6), Lit(2, -3), Lit(20, -3)},
     resistance |-> {Lit(2, 3), Lit(20, 3), Lit(200, 3), Lit(2, 6), Lit(20, 6),
                     Lit(200, 6), Lit(2, 9), Lit(20, 9), Lit(200, 9)},
     charge |-> {Lit(20, -9), Lit(200, -9), Lit(2, -6), Lit(20, -6)}]

\* _MODE_UNITS, lines 59-64: a dictionary keyed by the Mode members
_MODE_UNITS ==
    [voltage |-> "V", current |-> "A", resistance |-> "ohm", charge |-> "C"]

(* Units of the quantities package: the dimension of each and its power of *)
(* ten relative to the dimension's base unit.                               *)
UnitTable ==
    [V |-> [dim |-> "potential", exp |-> 0],
     A |-> [dim |-> "current", exp |-> 0],
     nA |-> [dim |-> "current", exp |-> -9],
     ohm |-> [dim |-> "resistance", exp |-> 0],
     C |-> [dim |-> "charge", exp |-> 0]]

-----------------------------------------------------------------------------
(* Python values.                                                          *)

None == [t |-> "none"]

Bool(b) == [t |-> "bool", b |-> b]

\* a quantities.Quantity: magnitude and unit
Qty(mag, u) == [t |-> "qty", mag |-> mag, u |-> u]

\* a response string as the transport returns it: text and trailing whitespace
Resp(body) == [t |-> "str", body |-> body, ws |-> "\n"]

\* a raised exception
Raise(e) == [t |-> "raise", e |-> e]

\* str.strip()
Strip(s) == s.body

\* bool(value): a Quantity is true when its magnitude is not zero
Truth(v) ==
    CASE v.t = "bool" -> v.b
      [] v.t = "qty" -> v.mag.d # 0
      [] OTHER -> v.t # "none"

(* Quantity.rescale(unit).item(): the magnitude in `unit`; a value that is *)
(* no Quantity has no rescale, a unit of another dimension cannot be        *)
(* converted to.                                                            *)
Rescale(value, unit) ==
    IF value.t # "qty" THEN Raise("AttributeError")
    ELSE IF UnitTable[value.u].dim # UnitTable[unit].dim THEN Raise("ValueError: units")
    ELSE IF value.mag.d = 0 THEN Mag(0, 0)
    ELSE Mag(value.mag.d, value.mag.e + UnitTable[value.u].exp - UnitTable[unit].exp)

\* '{:e}'.format(val): d.dddddde+XX
TwoDigits(n) == IF n < 10 THEN "0" \o ToString(n) ELSE ToString(n)

FormatE(val) ==
    ToString(val.d) \o ".000000e"
        \o (IF val.e < 0 THEN "-" \o TwoDigits(0 - val.e) ELSE "+" \o TwoDigits(val.e))

-----------------------------------------------------------------------------
(* The transport and the instrument behind it.  A command line is a header *)
(* and, after the first space, its argument; a query is a header and `?`.  *)
(* The instrument keeps the last argument sent to each header and answers  *)
(* a query with what it keeps; CONF:<function> selects the function and    *)
(* sets trigger and arm source to immediate (docstring of auto_config).    *)

Exchange(kind, hdr, arg, resp) == [kind |-> kind, hdr |-> hdr, arg |-> arg, resp |-> resp]

\* the line written to the transport by an exchange
Wire(x) ==
    IF x.kind = "query" THEN x.hdr \o "?"
    ELSE IF x.arg = "" THEN x.hdr
    ELSE x.hdr \o " " \o x.arg

ConfHeaders == {"CONF:" \o Mode[n] : n \in DOMAIN Mode}

DeviceApply(d, hdr, arg) ==
    IF hdr \in ConfHeaders
    THEN LET n == CHOOSE k \in DOMAIN Mode : hdr = "CONF:" \o Mode[k]
         IN ("FUNCTION" :> Mode[n]) @@ ("TRIGGER:SOURCE" :> "IMM")
                @@ ("ARM:SOURCE" :> "IMM") @@ d
    ELSE (hdr :> arg) @@ d

Reading == "+1.000000E+00"

DeviceAnswer(d, hdr) ==
    IF hdr \in {"FETC", "READ"} THEN Reading
    ELSE IF hdr \in DOMAIN d THEN d[hdr]
    ELSE ""

(* The outcome of running code against the instrument d: the instrument    *)
(* afterwards, the exchanges made, the value returned or exception raised. *)
Outcome(d, ex, res) == [dev |-> d, ex |-> ex, res |-> res]

Raised(o) == o.res.t = "raise"

\* `first`, then `second` run from first.dev
Then(first, second) == Outcome(second.dev, first.ex \o second.ex, second.res)

\* self.sendcmd(hdr + " " + arg): no response is read
sendcmd(d, hdr, arg) ==
    Outcome(DeviceApply(d, hdr, arg), <<Exchange("send", hdr, arg, "")>>, None)

\* self.query(hdr + "?"): an instrument that does not answer times the call out
query(d, hdr) ==
    LET a == DeviceAnswer(d, hdr)
    IN Outcome(d, <<Exchange("query", hdr, "", a)>>,
               IF a = "" THEN Raise("TransportError") ELSE Resp(a))

-----------------------------------------------------------------------------
(* enum_property and bool_property of instruments.util_fns: the accessors  *)
(* of one setting, keyed by its command keyword.                           *)

\* getter: query keyword?, trim, look the token up in the enumeration
enum_get(d, keyword, cls) ==
    LET q == query(d, keyword)
    IN IF Raised(q) THEN q
       ELSE LET tok == Strip(q.res)
                hit == {n \in DOMAIN EnumClass(cls) : EnumClass(cls)[n] = tok}
            IN Outcome(q.dev, q.ex,
                       IF hit = {} THEN Raise("ProtocolError")
                       ELSE Enum(cls, CHOOSE n \in hit : TRUE))

\* setter: look the member's token up, send keyword token
enum_set(d, keyword, cls, newval) ==
    IF newval \notin Members(cls) THEN Outcome(d, <<>>, Raise("ValueError: member"))
    ELSE sendcmd(d, keyword, EnumValue(newval))

\* getter: query keyword?, trim, map inst_true / inst_false to the boolean
bool_get(d, keyword, inst_true, inst_false) ==
    LET q == query(d, keyword)
    IN IF Raised(q) THEN q
       ELSE Outcome(q.dev, q.ex,
                    CASE Strip(q.res) = inst_true -> Bool(TRUE)
                      [] Strip(q.res) = inst_false -> Bool(FALSE)
                      [] OTHER -> Raise("ProtocolError"))

\* setter: send keyword inst_true or keyword inst_false
bool_set(d, keyword, inst_true, inst_false, newval) ==
    IF newval.t # "bool" THEN Outcome(d, <<>>, Raise("TypeError"))
    ELSE sendcmd(d, keyword, IF newval.b THEN inst_true ELSE inst_false)

-----------------------------------------------------------------------------
(* The class body, lines 127-177, in the order Python executes it.  Each   *)
(* statement binds a name of the class namespace to a property; a later    *)
(* binding of the same name replaces the earlier one.  An accessor is       *)
(* [h, kw, cls]: h = "enum" or "bool" with the keyword kw (and, for an     *)
(* enum, the enumeration cls), h = "def" for the function defined at line  *)
(* kw, h = "no" for none.                                                  *)

Acc(h, kw, cls) == [h |-> h, kw |-> kw, cls |-> cls]

NoAcc == Acc("no", "", "")

\* name = enum_property(keyword, enum)
EnumProperty(name, keyword, cls) ==
    [stmt |-> "assign", name |-> name,
     fget |-> Acc("enum", keyword, cls), fset |-> Acc("enum", keyword, cls), of |-> ""]

\* name = bool_property(keyword, 'ON', 'OFF')
BoolProperty(name, keyword) ==
    [stmt |-> "assign", name |-> name,
     fget |-> Acc("bool", keyword, ""), fset |-> Acc("bool", keyword, ""), of |-> ""]

\* @property def name(self), the def at `line`
PropertyDef(name, line) ==
    [stmt |-> "assign", name |-> name,
     fget |-> Acc("def", line, ""), fset |-> NoAcc, of |-> ""]

\* @of.setter def name(self, newval), the def at `line`:
\* name is bound to a copy of the property `of` with this def as its setter
SetterDef(of, name, line) ==
    [stmt |-> "setter", name |-> name,
     fget |-> NoAcc, fset |-> Acc("def", line, ""), of |-> of]

ClassBody ==
    << EnumProperty("mode", "FUNCTION", "TriggerMode"),
       EnumProperty("trigger_mode", "TRIGGER:SOURCE", "Mode"),
       EnumProperty("trigger_mode", "ARM:SOURCE", "ArmSource"),
       BoolProperty("zero_check", "SYST:ZCH"),
       BoolProperty("zero_correct", "SYST:ZCOR"),
       PropertyDef("unit", "152"),
       PropertyDef("auto_range", "156"),
       SetterDef("trigger_mode", "auto_range", "164"),
       PropertyDef("input_range", "168"),
       SetterDef("trigger_mode", "auto_range", "176") >>

\* the property a statement binds, given the namespace it runs in
Bound(ns, b) ==
    IF b.stmt = "setter"
    THEN [fget |-> ns[b.of].fget, fset |-> b.fset]
    ELSE [fget |-> b.fget, fset |-> b.fset]

RECURSIVE Namespace(_)
\* the class namespace after the first k statements of the class body
Namespace(k) ==
    IF k = 0 THEN <<>>
    ELSE LET ns == Namespace(k - 1)
             b == ClassBody[k]
         IN (b.name :> Bound(ns, b)) @@ ns

\* the properties of the finished class
ClassDict == Namespace(Len(ClassBody))

-----------------------------------------------------------------------------
(* Private methods, lines 96-123.                                          *)

IsRaise(x) == "t" \in DOMAIN x /\ x.t = "raise"

\* a tuple of floats
Tuple(items) == [t |-> "tuple", items |-> items]

\* _valid_range(mode): the if/elif chain over the Mode members
_valid_range(mode) ==
    CASE mode = Enum("Mode", "voltage") -> Tuple(ValidRange.voltage)
      [] mode = Enum("Mode", "current") -> Tuple(ValidRange.current)
      [] mode = Enum("Mode", "resistance") -> Tuple(ValidRange.resistance)
      [] mode = Enum("Mode", "charge") -> Tuple(ValidRange.charge)
      [] OTHER -> Raise("ValueError: mode")

(* value.rescale(self._MODE_UNITS[mode]).item(), lines 100 and 108: the    *)
(* attribute rescale is looked up first, then the dictionary is indexed.   *)
rescaled(mode, value) ==
    IF value.t # "qty" THEN Raise("AttributeError")
    ELSE IF mode \notin Members("Mode") THEN Raise("KeyError")
    ELSE Rescale(value, _MODE_UNITS[mode.name])

_get_auto_range(d, mode) ==
    LET out == query(d, EnumValue(mode) \o ":RANGE:AUTO")
    IN IF Raised(out) THEN out
       ELSE Outcome(out.dev, out.ex, Bool(Strip(out.res) = "ON"))

_set_auto_range(d, mode, value) ==
    LET val == rescaled(mode, value)
    IN IF IsRaise(val) THEN Outcome(d, <<>>, val)
       ELSE IF IsRaise(_valid_range(mode)) THEN Outcome(d, <<>>, _valid_range(mode))
       ELSE IF val \notin _valid_range(mode).items THEN Outcome(d, <<>>, Raise("ValueError: range"))
       ELSE sendcmd(d, EnumValue(mode) \o ":RANGE",
                    "AUTO " \o (IF Truth(value) THEN "ON" ELSE "OFF"))

\* _get_range querying both range nodes
_get_range_both_nodes(d, mode) ==
    LET out == query(d, EnumValue(mode) \o ":RANGE:UPPER")
    IN IF Raised(out) THEN out
       ELSE Then(out, query(out.dev, EnumValue(mode) \o ":RANGE:LOWER"))

\* no return statement: the response is dropped and None returned
_get_range(d, mode) ==
    LET out == query(d, EnumValue(mode) \o ":RANGE:UPPER")
    IN IF Raised(out) THEN out
       ELSE Outcome(out.dev, out.ex, None)

_set_range(d, mode, value) ==
    LET val == rescaled(mode, value)
    IN IF IsRaise(val) THEN Outcome(d, <<>>, val)
       ELSE sendcmd(d, EnumValue(mode) \o ":RANGE:LOWER", FormatE(val))

-----------------------------------------------------------------------------
(* Attribute access on an instance.                                        *)

\* the accessor `acc` of an enum_property or bool_property, read
codec_get(d, acc) ==
    IF acc.h = "enum" THEN enum_get(d, acc.kw, acc.cls)
    ELSE bool_get(d, acc.kw, "ON", "OFF")

\* the accessor `acc` of an enum_property or bool_property, written
codec_set(d, acc, newval) ==
    IF acc.h = "enum" THEN enum_set(d, acc.kw, acc.cls, newval)
    ELSE bool_set(d, acc.kw, "ON", "OFF", newval)

\* self.mode, as the functions of lines 152-177 read it
self_mode(d) == codec_get(d, ClassDict["mode"].fget)

\* line 153: self._MODE_UNITS(self.mode) calls the dictionary
unit_def(d) ==
    LET m == self_mode(d)
    IN IF Raised(m) THEN m ELSE Outcome(m.dev, m.ex, Raise("TypeError"))

\* line 162: return self._get_auto_range(self.mode)
auto_range_def_156(d) ==
    LET m == self_mode(d)
    IN IF Raised(m) THEN m ELSE Then(m, _get_auto_range(m.dev, m.res))

\* line 165: self._set_auto_range(self.mode, newval)
auto_range_def_164(d, newval) ==
    LET m == self_mode(d)
    IN IF Raised(m) THEN m ELSE Then(m, _set_auto_range(m.dev, m.res, newval))

\* line 174: return self._get_range(self.mode)
input_range_def_168(d) ==
    LET m == self_mode(d)
    IN IF Raised(m) THEN m ELSE Then(m, _get_range(m.dev, m.res))

\* line 177: self._set_range(self.mode, newval)
auto_range_def_176(d, newval) ==
    LET m == self_mode(d)
    IN IF Raised(m) THEN m ELSE Then(m, _set_range(m.dev, m.res, newval))

\* instance.name
getattr(d, name) ==
    LET acc == ClassDict[name].fget
    IN CASE acc.h \in {"enum", "bool"} -> codec_get(d, acc)
         [] acc.h = "def" /\ acc.kw = "152" -> unit_def(d)
         [] acc.h = "def" /\ acc.kw = "156" -> auto_range_def_156(d)
         [] acc.h = "def" /\ acc.kw = "168" -> input_range_def_168(d)
         [] OTHER -> Outcome(d, <<>>, Raise("AttributeError"))

\* instance.name = newval
setattr(d, name, newval) ==
    LET acc == ClassDict[name].fset
    IN CASE acc.h \in {"enum", "bool"} -> codec_set(d, acc, newval)
         [] acc.h = "def" /\ acc.kw = "164" -> auto_range_def_164(d, newval)
         [] acc.h = "def" /\ acc.kw = "176" -> auto_range_def_176(d, newval)
         [] OTHER -> Outcome(d, <<>>, Raise("AttributeError"))

-----------------------------------------------------------------------------
(* Public methods, lines 182-209.                                          *)

\* auto_config selecting the function with a second command
auto_config_and_function(d, mode) ==
    LET conf == sendcmd(d, "CONF:" \o EnumValue(mode), "")
    IN Then(conf, sendcmd(conf.dev, "FUNCTION", EnumValue(mode)))

auto_config(d, mode) == sendcmd(d, "CONF:" \o EnumValue(mode), "")

\* fetch triggering a new acquisition
fetch_triggering(d) == query(d, "READ")

fetch(d) == query(d, "FETC")

read(d) == query(d, "READ")

-----------------------------------------------------------------------------
(* The state machine: one action per call a program can make on the driver. *)

\* the quantities a caller hands to the range setters
Quantities ==
    {Qty(Mag(2, 0), "nA"), Qty(Mag(3, 0), "nA"), Qty(Mag(2, 1), "V")}

Booleans == {Bool(TRUE), Bool(FALSE)}

\* the values a caller assigns to each attribute
SetInputs(name) ==
    CASE name = "mode" -> Members("Mode") \cup Members("TriggerMode")
      [] name = "trigger_mode" -> Members("TriggerMode") \cup Members("ArmSource")
      [] name \in {"zero_check", "zero_correct"} -> Booleans
      [] name = "auto_range" -> Booleans \cup Quantities
      [] name = "input_range" -> Quantities
      [] OTHER -> {None}

\* the record of a call and its outcome
Call(op, name, mode, arg, o) ==
    [op |-> op, name |-> name, mode |-> mode, arg |-> arg, ex |-> o.ex, res |-> o.res]

\* the instrument at power-on, in the function f
PowerOn(f) ==
    [h \in {"FUNCTION", "TRIGGER:SOURCE", "ARM:SOURCE", "SYST:ZCH", "SYST:ZCOR"}
        \cup {Mode[n] \o ":RANGE:AUTO" : n \in DOMAIN Mode}
        \cup {Mode[n] \o ":RANGE:UPPER" : n \in DOMAIN Mode} |->
     CASE h = "FUNCTION" -> Mode[f]
       [] h \in {"TRIGGER:SOURCE", "ARM:SOURCE"} -> "IMM"
       [] h = "SYST:ZCH" -> "ON"
       [] h = "SYST:ZCOR" -> "OFF"
       [] h \in {Mode[n] \o ":RANGE:AUTO" : n \in DOMAIN Mode} -> "ON"
       [] OTHER -> LET n == CHOOSE k \in DOMAIN Mode : h = Mode[k] \o ":RANGE:UPPER"
                   IN FormatE(CHOOSE r \in ValidRange[n] :
                                  \A q \in ValidRange[n] : r.e >= q.e)]

Init ==
    /\ \E f \in DOMAIN Mode : dev = PowerOn(f)
    /\ last = [op |-> "open", name |-> "", mode |-> None, arg |-> None,
               ex |-> <<>>, res |-> None]
    /\ calls = 0

GetAttr ==
    \E name \in DOMAIN ClassDict :
        LET o == getattr(dev, name)
        IN /\ calls < MaxCalls
           /\ calls' = calls + 1
           /\ dev' = o.dev
           /\ last' = Call("getattr", name, None, None, o)

SetAttr ==
    \E name \in DOMAIN ClassDict : \E newval \in SetInputs(name) :
        LET o == setattr(dev, name, newval)
        IN /\ calls < MaxCalls
           /\ calls' = calls + 1
           /\ dev' = o.dev
           /\ last' = Call("setattr", name, None, newval, o)

AutoConfig ==
    \E mode \in Members("Mode") :
        LET o == auto_config(dev, mode)
        IN /\ calls < MaxCalls
           /\ calls' = calls + 1
           /\ dev' = o.dev
           /\ last' = Call("auto_config", "", mode, None, o)

Fetch ==
    LET o == fetch(dev)
        IN /\ calls < MaxCalls
           /\ calls' = calls + 1
           /\ dev' = o.dev
           /\ last' = Call("fetch", "", None, None, o)

Read ==
    LET o == read(dev)
        IN /\ calls < MaxCalls
           /\ calls' = calls + 1
           /\ dev' = o.dev
           /\ last' = Call("read", "", None, None, o)

GetAutoRange ==
    \E mode \in Members("Mode") :
        LET o == _get_auto_range(dev, mode)
        IN /\ calls < MaxCalls
           /\ calls' = calls + 1
           /\ dev' = o.dev
           /\ last' = Call("_get_auto_range", "", mode, None, o)

SetAutoRange ==
    \E mode \in Members("Mode") : \E value \in Booleans \cup Quantities :
        LET o == _set_auto_range(dev, mode, value)
        IN /\ calls < MaxCalls
           /\ calls' = calls + 1
           /\ dev' = o.dev
           /\ last' = Call("_set_auto_range", "", mode, value, o)

GetRange ==
    \E mode \in Members("Mode") :
        LET o == _get_range(dev, mode)
        IN /\ calls < MaxCalls
           /\ calls' = calls + 1
           /\ dev' = o.dev
           /\ last' = Call("_get_range", "", mode, None, o)

SetRange ==
    \E mode \in Members("Mode") : \E value \in Quantities :
        LET o == _set_range(dev, mode, value)
        IN /\ calls < MaxCalls
           /\ calls' = calls + 1
           /\ dev' = o.dev
           /\ last' = Call("_set_range", "", mode, value, o)

Next ==
    \/ GetAutoRange
    \/ SetAutoRange
    \/ GetRange
    \/ SetRange
    \/ GetAttr
    \/ SetAttr
    \/ AutoConfig
    \/ Fetch
    \/ Read

Spec == Init /\ [][Next]_vars

-----------------------------------------------------------------------------
(* Vocabulary of the properties.                                           *)

\* the lines the last call wrote to the transport, in order
Wires == [i \in 1..Len(last.ex) |-> Wire(last.ex[i])]

\* the exchanges of the last call that are commands (nothing is read back)
Commands == {i \in 1..Len(last.ex) : last.ex[i].kind = "send"}

\* the last call raised
Failed == last.res.t = "raise"

(* The Mode the instrument is in.  No range accessor writes FUNCTION, so   *)
(* after such a call this is also the Mode the instrument was in during it. *)
ActiveModes == {m \in Members("Mode") : dev["FUNCTION"] = EnumValue(m)}

\* value, in the unit of mode m, is a member of m's table of legal ranges
LegalUnder(m, value) ==
    /\ value.t = "qty"
    /\ UnitTable[value.u].dim = UnitTable[_MODE_UNITS[m.name]].dim
    /\ Rescale(value, _MODE_UNITS[m.name]) \in ValidRange[m.name]

\* the range the instrument reports for mode m is a member of m's table
CurrentRangeLegal(m) ==
    \E r \in ValidRange[m.name] : dev[EnumValue(m) \o ":RANGE:UPPER"] = FormatE(r)

\* the last call set the input range with the instrument in mode m
IsRangeSet(m) ==
    \/ last.op = "setattr" /\ last.name = "input_range"
    \/ last.op = "_set_range" /\ last.mode = m

\* the last call read the input range with the instrument in mode m
IsRangeGet(m) ==
    \/ last.op = "getattr" /\ last.name = "input_range"
    \/ last.op = "_get_range" /\ last.mode = m

\* the last call set auto-range with the instrument in mode m
IsAutoRangeSet(m) ==
    \/ last.op = "setattr" /\ last.name = "auto_range"
    \/ last.op = "_set_auto_range" /\ last.mode = m

-----------------------------------------------------------------------------
(* C1: with the instrument in mode m, setting input_range to v sends a     *)
(* range-set command if and only if v, in the unit of m, is a member of    *)
(* the legal range table of m; otherwise the call fails and no command is  *)
(* sent.                                                                   *)
C1_RangeSetIffLegal ==
    \A m \in ActiveModes :
        IsRangeSet(m) =>
            IF LegalUnder(m, last.arg)
            THEN Commands # {}
            ELSE Failed /\ Commands = {}

(* C2: with the instrument in mode m, setting auto_range to true or false  *)
(* sends the auto-range command exactly when the range the instrument      *)
(* currently holds for m is legal, and is rejected with nothing sent when  *)
(* it is not.                                                              *)
C2_AutoRangeSetChecksCurrentRange ==
    \A m \in ActiveModes :
        IsAutoRangeSet(m) /\ last.arg.t = "bool" =>
            IF CurrentRangeLegal(m)
            THEN Commands # {}
            ELSE Failed /\ Commands = {}

\* the values the specification gives the setting behind each keyword
SettingDomain(keyword) ==
    CASE keyword = "FUNCTION" -> Members("Mode")
      [] keyword = "TRIGGER:SOURCE" -> Members("TriggerMode")
      [] keyword = "ARM:SOURCE" -> Members("ArmSource")
      [] keyword \in {"SYST:ZCH", "SYST:ZCOR"} -> Booleans

(* C3: for the settings FUNCTION (Mode), TRIGGER:SOURCE (TriggerMode),     *)
(* ARM:SOURCE (ArmSource), SYST:ZCH and SYST:ZCOR (booleans), setting a    *)
(* value of the setting's domain succeeds and a get then returns it.       *)
C3_RoundTrip ==
    (/\ last.op = "setattr"
     /\ ClassDict[last.name].fset.h \in {"enum", "bool"}
     /\ last.arg \in SettingDomain(ClassDict[last.name].fset.kw))
        => /\ ~ Failed
           /\ getattr(dev, last.name).res = last.arg

\* the attribute names the class body gives the property of a keyword
Declared(keyword) ==
    {ClassBody[k].name : k \in {j \in 1..Len(ClassBody) : ClassBody[j].fset.kw = keyword}}

\* a step that assigns a value of `cls` to the attribute declared for `keyword`
\* reaches that keyword's accessor, sends only its command, and keeps `other`
SetsOnly(keyword, cls, other) ==
    \A n \in Declared(keyword) :
        (last'.op = "setattr" /\ last'.name = n /\ last'.arg \in Members(cls))
            => /\ ClassDict[n].fset.kw = keyword
               /\ Wires' = <<keyword \o " " \o EnumValue(last'.arg)>>
               /\ dev'[other] = dev[other]

C4_Step ==
    /\ SetsOnly("TRIGGER:SOURCE", "TriggerMode", "ARM:SOURCE")
    /\ SetsOnly("ARM:SOURCE", "ArmSource", "TRIGGER:SOURCE")

(* C4: the class has an accessor of TRIGGER:SOURCE and an accessor of      *)
(* ARM:SOURCE at the same time; a set through the first sends only         *)
(* TRIGGER:SOURCE <x> and leaves the arm source alone, a set through the   *)
(* second sends only ARM:SOURCE <x> and leaves the trigger source alone.   *)
C4_SeparateSettings == [][C4_Step]_vars

(* C5: with the instrument in mode m, reading input_range queries          *)
(* <keyword of m>:RANGE:UPPER? and, when the instrument answers, returns   *)
(* the magnitude of the response in the unit of m.                         *)
C5_RangeGetReturnsMagnitude ==
    \A m \in ActiveModes :
        IsRangeGet(m) =>
            /\ Len(last.ex) >= 1
            /\ Wires[Len(last.ex)] = EnumValue(m) \o ":RANGE:UPPER?"
            /\ last.ex[Len(last.ex)].resp # "" =>
                  /\ last.res.t = "qty"
                  /\ last.res.u = _MODE_UNITS[m.name]
                  /\ FormatE(last.res.mag) = last.ex[Len(last.ex)].resp

(* C6: fetch() writes exactly FETC? to the transport and read() exactly    *)
(* READ?, whatever was called before.                                      *)
C6_FetchAndReadCommands ==
    /\ last.op = "fetch" => Wires = <<"FETC?">>
    /\ last.op = "read" => Wires = <<"READ?">>

\* a read() made after another call, with its one trigger-and-read query
C6_Witness ==
    /\ calls > 1
    /\ last.op = "read"
    /\ Len(last.ex) = 1
    /\ last.ex[1].kind = "query"

C8_AutoRangeSetAndGetSameNode ==
    \A m \in Members("Mode") :
        (/\ \/ last.op = "_set_auto_range" /\ last.mode = m
            \/ last.op = "setattr" /\ last.name = "auto_range" /\ m \in ActiveModes
         /\ Commands # {})
            => /\ Wires[Len(last.ex)]
                    = EnumValue(m) \o ":RANGE:AUTO " \o (IF Truth(last.arg) THEN "ON" ELSE "OFF")
               /\ _get_auto_range(dev, m).res = Bool(Truth(last.arg))

\* the headers of the range commands of mode m
RangeHeaders(m) ==
    {EnumValue(m) \o x : x \in {":RANGE", ":RANGE:AUTO", ":RANGE:LOWER", ":RANGE:UPPER"}}

(* C9: whatever mode changes came before, a set of input_range or          *)
(* auto_range works with the Mode m the instrument reports during the      *)
(* call: a range legal under m is sent under the keyword of m as its       *)
(* magnitude in the unit of m, a value not legal under m (one legal only   *)
(* under an earlier mode included) is rejected, and no command carries the *)
(* keyword of another mode.                                                *)
C9_SetUsesReportedMode ==
    \A m \in ActiveModes :
        /\ (last.op = "setattr" /\ last.name = "input_range") =>
              IF LegalUnder(m, last.arg)
              THEN \E i \in Commands :
                      /\ last.ex[i].hdr \in RangeHeaders(m)
                      /\ last.ex[i].arg = FormatE(Rescale(last.arg, _MODE_UNITS[m.name]))
              ELSE Commands = {}
        /\ (last.op = "setattr" /\ last.name \in {"input_range", "auto_range"}) =>
              \A i \in Commands : last.ex[i].hdr \in RangeHeaders(m)

\* the calls of the public interface
PublicCall == last.op \in {"getattr", "setattr", "auto_config", "fetch", "read"}

(* C10: every property access or method call (mode, trigger and arm        *)
(* source, zero_check, zero_correct, auto_range, input_range, auto_config, *)
(* fetch, read) makes at most one exchange on the transport.               *)
C10_AtMostOneExchange ==
    PublicCall => Len(last.ex) <= 1

(* C10, amended: every call makes at most two exchanges.  Only an access   *)
(* of a property whose function reads self.mode (auto_range, input_range,  *)
(* unit) makes two, the first of them the query FUNCTION?; every other     *)
(* call, the private range methods included, makes at most one.            *)
C10_AtMostTwoExchanges ==
    /\ Len(last.ex) <= 2
    /\ Len(last.ex) = 2 =>
          /\ last.op \in {"getattr", "setattr"}
          /\ last.name \in {"auto_range", "input_range", "unit"}
          /\ Wires[1] = "FUNCTION?"

\* input_range read with two exchanges: FUNCTION? and then the range query
C10_Witness ==
    /\ last.op = "getattr"
    /\ last.name = "input_range"
    /\ Len(last.ex) = 2
    /\ Wires[1] = "FUNCTION?"
    /\ last.ex[2].hdr = last.ex[1].resp \o ":RANGE:UPPER"

=============================================================================
